---- MODULE Spec2Model ----
(***************************************************************************)
(* Model of locustfile.py: the CacheUser load generator.                   *)
(*                                                                         *)
(* The module is imported once: its configuration constants are bound and  *)
(* the body of class CacheUser builds the two class-level pools.  After    *)
(* that the harness runs virtual users; each repeatedly calls mixed_load,  *)
(* which draws random.random() and calls put_request or get_request.  The  *)
(* HTTP call yields the greenlet, so other users run until the response    *)
(* (of whatever outcome) comes back.                                       *)
(*                                                                         *)
(* requests, emitted, started, responses, failed, after_failure,           *)
(* pool_builds and the init_* copies are observation variables: they       *)
(* record what went over the wire and never feed back into the program.    *)
(***************************************************************************)
EXTENDS Integers, Sequences, FiniteSets

\* ---- bounds of the model -------------------------------------------------
\* KEY_POOL_SIZE = 10_000 and VALUE_LENGTH = 256 in the source; scaled down.
KEY_POOL_SIZE == 2
VALUE_LENGTH == 1
NumUsers == 2
MaxRequests == 2

Users == 1..NumUsers

\* uuid.uuid4() followed by str(): a random identifier.  str() is injective,
\* so the small set stands for the 2^122 possible strings.
UUID4 == {"6f1c", "a2e0"}

\* string.printable, cut down to two characters.
printable == {"a", "b"}

\* random.random() returns a float in [0.0, 1.0); modelled in tenths,
\* with draws on both sides of 0.5 and at both ends.
RandomDraws == {0, 2, 4, 5, 7, 9}

\* PUT_RATIO in tenths: 0.0, 0.5 (the source's setting) and 1.0.
Ratios == {0, 5, 10}

\* What the harness's HTTP client can report for a request.
Outcomes == {"ok", "timeout", "transport_error", "non_2xx"}

VARIABLES
    PUT_RATIO,      \* module constant, in tenths
    loaded,         \* the class body of CacheUser has been executed
    key_pool,       \* CacheUser.key_pool
    value_pool,     \* CacheUser.value_pool
    user,           \* user[u]: "idle" (between work units) or "waiting" (in the HTTP call)
    requests,       \* the distinct requests handed to self.client so far
    emitted,        \* number of requests handed to self.client so far
    started,        \* number of mixed_load invocations begun
    responses,      \* number of HTTP calls that returned
    failed,         \* some HTTP call returned with an outcome other than "ok"
    after_failure,  \* some work unit began after such an outcome
    pool_builds,    \* how many times the pools were built
    init_key_pool,  \* key_pool as it was right after the class body ran
    init_value_pool \* value_pool as it was right after the class body ran

vars == <<PUT_RATIO, loaded, key_pool, value_pool, user, requests, emitted, started,
          responses, failed, after_failure, pool_builds, init_key_pool,
          init_value_pool>>

Range(s) == {s[i] : i \in DOMAIN s}

\* Variant: one iteration too many.
range_off_by_one(n) == 1..(n + 1)

\* range(n): n iterations.
range(n) == 1..n

\* Variant: one character short.
random_choices_short(population, k) == [1..(k - 1) -> population]

\* random.choices(population, k=k) joined into a string: any k characters.
random_choices(population, k) == [range(k) -> population]

\* The json body / query string handed to the client.
PostPut(key, value) == [method |-> "POST", path |-> "/put", key |-> key, value |-> value]
GetGet(key) == [method |-> "GET", path |-> "/get", key |-> key, value |-> <<>>]

Init ==
    /\ PUT_RATIO \in Ratios
    /\ loaded = FALSE
    /\ key_pool = <<>>
    /\ value_pool = <<>>
    /\ user = [u \in Users |-> "idle"]
    /\ requests = {}
    /\ emitted = 0
    /\ started = 0
    /\ responses = 0
    /\ failed = FALSE
    /\ after_failure = FALSE
    /\ pool_builds = 0
    /\ init_key_pool = <<>>
    /\ init_value_pool = <<>>

\* Variant: the pools are built again whenever the body is reached, also
\* after users have started.
class_body_again ==
    /\ pool_builds <= MaxRequests
    /\ \E kp \in [1..KEY_POOL_SIZE -> UUID4] :
       \E vp \in [1..KEY_POOL_SIZE -> [1..VALUE_LENGTH -> printable]] :
          /\ key_pool' = kp
          /\ value_pool' = vp
          /\ init_key_pool' = IF loaded THEN init_key_pool ELSE kp
          /\ init_value_pool' = IF loaded THEN init_value_pool ELSE vp
    /\ loaded' = TRUE
    /\ pool_builds' = pool_builds + 1
    /\ UNCHANGED <<PUT_RATIO, user, requests, emitted, started, responses, failed,
                   after_failure>>

\* Lines 52-58: the class body, executed once when the module is imported.
class_body ==
    /\ ~loaded
    /\ \E kp \in [range(KEY_POOL_SIZE) -> UUID4] :
       \E vp \in [range(KEY_POOL_SIZE) -> random_choices(printable, VALUE_LENGTH)] :
          /\ key_pool' = kp
          /\ value_pool' = vp
          /\ init_key_pool' = kp
          /\ init_value_pool' = vp
    /\ loaded' = TRUE
    /\ pool_builds' = pool_builds + 1
    /\ UNCHANGED <<PUT_RATIO, user, requests, emitted, started, responses, failed,
                   after_failure>>

\* self.client.post / self.client.get: the request goes out and the greenlet
\* waits for the response.
client_request(u, req) ==
    /\ requests' = requests \cup {req}
    /\ emitted' = emitted + 1
    /\ user' = [user EXCEPT ![u] = "waiting"]

\* Variant: the value is the one stored at the key's index.
put_request_same_index(u) ==
    /\ \E i \in DOMAIN key_pool :
          client_request(u, PostPut(key_pool[i], value_pool[i]))
    /\ UNCHANGED <<key_pool, value_pool, pool_builds>>

\* Variant: the chosen key is taken out of the pool.
put_request_remove(u) ==
    /\ \E i \in DOMAIN key_pool : \E j \in DOMAIN value_pool :
          /\ client_request(u, PostPut(key_pool[i], value_pool[j]))
          /\ key_pool' = [n \in 1..(Len(key_pool) - 1) |->
                             IF n < i THEN key_pool[n] ELSE key_pool[n + 1]]
    /\ UNCHANGED <<value_pool, pool_builds>>

\* Lines 68-75.
put_request(u) ==
    /\ \E i \in DOMAIN key_pool : \E j \in DOMAIN value_pool :
          client_request(u, PostPut(key_pool[i], value_pool[j]))
    /\ UNCHANGED <<key_pool, value_pool, pool_builds>>

\* Variant: the key is a fresh uuid4 instead of a pool element.
get_request_fresh_key(u) ==
    /\ \E k \in UUID4 : client_request(u, GetGet(k))
    /\ UNCHANGED <<key_pool, value_pool, pool_builds>>

\* Lines 77-82.
get_request(u) ==
    /\ \E i \in DOMAIN key_pool : client_request(u, GetGet(key_pool[i]))
    /\ UNCHANGED <<key_pool, value_pool, pool_builds>>

\* Variant: <= for <.
is_put_le(r) == r <= PUT_RATIO

\* Line 63: random.random() < PUT_RATIO.
is_put(r) == r < PUT_RATIO

\* Variant: the else is missing, so a write is followed by a read.
mixed_load_no_else(u) ==
    /\ loaded
    /\ user[u] = "idle"
    /\ started < MaxRequests
    /\ started' = started + 1
    /\ after_failure' = (after_failure \/ failed)
    /\ \E r \in RandomDraws : \E i, k \in DOMAIN key_pool : \E j \in DOMAIN value_pool :
          /\ requests' = IF r < PUT_RATIO
                            THEN requests \cup {PostPut(key_pool[i], value_pool[j]),
                                                GetGet(key_pool[k])}
                            ELSE requests \cup {GetGet(key_pool[k])}
          /\ emitted' = IF r < PUT_RATIO THEN emitted + 2 ELSE emitted + 1
    /\ user' = [user EXCEPT ![u] = "waiting"]
    /\ UNCHANGED <<PUT_RATIO, loaded, key_pool, value_pool, responses, failed,
                   pool_builds, init_key_pool, init_value_pool>>

\* Lines 60-66.
mixed_load(u) ==
    /\ loaded
    /\ user[u] = "idle"
    /\ started < MaxRequests
    /\ started' = started + 1
    /\ after_failure' = (after_failure \/ failed)
    /\ \E r \in RandomDraws :
          IF is_put(r) THEN put_request(u) ELSE get_request(u)
    /\ UNCHANGED <<PUT_RATIO, loaded, responses, failed,
                   init_key_pool, init_value_pool>>

\* Variant: a call that did not succeed is issued again.
response_retry(u, outcome) ==
    /\ user[u] = "waiting"
    /\ responses' = responses + 1
    /\ failed' = (failed \/ outcome # "ok")
    /\ IF outcome = "ok"
          THEN user' = [user EXCEPT ![u] = "idle"] /\ UNCHANGED emitted
          ELSE emitted' = emitted + 1 /\ UNCHANGED user
    /\ responses < MaxRequests
    /\ UNCHANGED <<PUT_RATIO, loaded, key_pool, value_pool, requests, started,
                   after_failure, pool_builds, init_key_pool, init_value_pool>>

\* The HTTP call of lines 71-75 / 79-82 returns; its result is discarded and
\* the task method returns to the harness.
response(u, outcome) ==
    /\ user[u] = "waiting"
    /\ user' = [user EXCEPT ![u] = "idle"]
    /\ responses' = responses + 1
    /\ failed' = (failed \/ outcome # "ok")
    /\ UNCHANGED <<PUT_RATIO, loaded, key_pool, value_pool, requests, emitted, started,
                   after_failure, pool_builds, init_key_pool, init_value_pool>>

Next ==
    \/ class_body
    \/ \E u \in Users : mixed_load(u)
    \/ \E u \in Users : \E outcome \in Outcomes : response(u, outcome)

Spec == Init /\ [][Next]_vars

TypeOK ==
    /\ PUT_RATIO \in Ratios
    /\ loaded \in BOOLEAN
    /\ user \in [Users -> {"idle", "waiting"}]
    /\ started \in 0..MaxRequests
    /\ responses \in 0..MaxRequests
    /\ failed \in BOOLEAN
    /\ after_failure \in BOOLEAN
\* ---- properties -----------------------------------------------------------

Posts == {q \in requests : q.method = "POST"}
Gets == {q \in requests : q.method = "GET"}

\* C1: every request emitted, POST /put or GET /get, carries a key that is an
\* element of the key pool built at startup.
KeysFromPool == \A q \in requests : q.key \in Range(init_key_pool)

KeysFromPoolWitness ==
    /\ Posts # {}
    /\ Gets # {}
    /\ \A q \in requests : q.key \in Range(init_key_pool)

\* C2: every value carried by a POST /put is an element of the value pool
\* built at startup, and every element of the value pool has length
\* VALUE_LENGTH.
ValuesFromPool ==
    /\ \A q \in Posts : q.value \in Range(init_value_pool) /\ Len(q.value) = VALUE_LENGTH
    /\ \A i \in DOMAIN value_pool : Len(value_pool[i]) = VALUE_LENGTH

ValuesFromPoolWitness ==
    /\ Cardinality(Posts) >= 2
    /\ \A q \in Posts : Len(q.value) = VALUE_LENGTH

\* C3: a step that begins a work unit or emits a request does both, exactly
\* once: one invocation, one request (a POST /put or a GET /get), and the key
\* pool, the value pool and the ratio are left as they were.
OneRequestPerWorkUnit ==
    [][(started' # started \/ emitted' # emitted \/ requests' # requests) =>
          /\ started' = started + 1
          /\ emitted' = emitted + 1
          /\ \E q \in requests' :
                /\ requests' = requests \cup {q}
                /\ \/ q.method = "POST" /\ q.path = "/put"
                   \/ q.method = "GET" /\ q.path = "/get"
          /\ UNCHANGED <<key_pool, value_pool, PUT_RATIO>>]_vars

OneRequestPerWorkUnitWitness ==
    /\ started = 2
    /\ emitted = 2
    /\ Posts # {}
    /\ Gets # {}

\* C4: with PUT_RATIO = 0.0 every work unit emits a GET /get and no POST is
\* ever emitted; with PUT_RATIO = 1.0 every work unit emits a POST /put with
\* key and value from the pools and no GET is ever emitted.
RatioBoundaries ==
    /\ PUT_RATIO = 0 => emitted = started /\ Posts = {}
    /\ PUT_RATIO = 10 =>
          /\ emitted = started
          /\ Gets = {}
          /\ \A q \in requests :
                q.key \in Range(key_pool) /\ q.value \in Range(value_pool)

RatioBoundariesWitness ==
    /\ PUT_RATIO = 0
    /\ started = 2
    /\ Cardinality(Gets) = 2

\* C5: the value of a write is chosen independently of its key: whenever a
\* user can begin a work unit and the ratio allows a write, a POST /put
\* carrying (k, v) is a possible request for every key k of the key pool and
\* every value v of the value pool.
IndependentValue ==
    \A u \in Users :
       (loaded /\ user[u] = "idle" /\ started < MaxRequests /\ PUT_RATIO > 0) =>
          \A k \in Range(key_pool) : \A v \in Range(value_pool) :
             ENABLED (mixed_load(u) /\ requests' = requests \cup {PostPut(k, v)})

\* Two writes to one key carried different values.
IndependentValueWitness ==
    \E p, q \in Posts : p.key = q.key /\ p.value # q.value

\* C6: a step in which an HTTP call returns, with whatever outcome, emits no
\* request, begins no work unit, leaves the pools and the ratio alone and
\* puts the user back to idle, from where the next work unit starts as after
\* a success.
NoRetryOnOutcome ==
    [][responses' # responses =>
          /\ responses' = responses + 1
          /\ emitted' = emitted
          /\ started' = started
          /\ requests' = requests
          /\ UNCHANGED <<key_pool, value_pool, PUT_RATIO>>
          /\ \E u \in Users :
                /\ user[u] = "waiting"
                /\ user' = [user EXCEPT ![u] = "idle"]]_vars

\* A call failed, a later work unit began, and still one request per unit.
NoRetryOnOutcomeWitness ==
    /\ failed
    /\ after_failure
    /\ started = 2
    /\ emitted = 2

\* C7: once built, the two pools have the same size, the configured pool
\* size, and the contents they had right after initialization.
PoolsImmutable ==
    loaded =>
       /\ Len(key_pool) = KEY_POOL_SIZE
       /\ Len(value_pool) = KEY_POOL_SIZE
       /\ key_pool = init_key_pool
       /\ value_pool = init_value_pool

\* Two users are in their HTTP calls at once, after writes went out.
PoolsImmutableWitness ==
    /\ loaded
    /\ Cardinality({u \in Users : user[u] = "waiting"}) >= 2
    /\ Posts # {}
    /\ key_pool = init_key_pool
    /\ value_pool = init_value_pool

PoolsBuiltOnceFirst ==
    /\ (started > 0 \/ emitted > 0 \/ requests # {}) => loaded
    /\ loaded => pool_builds = 1
    /\ ~loaded => pool_builds = 0 /\ key_pool = <<>> /\ value_pool = <<>>

\* Every user has a request out, all against the one pool pair.
PoolsBuiltOnceFirstWitness ==
    /\ pool_builds = 1
    /\ \A u \in Users : user[u] = "waiting"
    /\ \A q \in requests : q.key \in Range(key_pool)
====
